---- MODULE Spec2Model ----
(***************************************************************************)
(* Model of the `tag` attribute macro of the test-tag crate (src/lib.rs).  *)
(*                                                                         *)
(* One expansion of `#[tag(<direct>)] <item>` is modelled step by step:    *)
(* the direct argument list is parsed (parse_tags), the attributes of the  *)
(* annotated function are scanned one loop iteration at a time             *)
(* (parse_fn_attrs), the rewritten unit is emitted (rest of try_tag), and  *)
(* the test harness finally derives the test's name from the module nest   *)
(* the unit sits in.  The annotated item is always a function, so          *)
(* `ItemFn::parse` (lib.rs:110) succeeds.                                  *)
(*                                                                         *)
(* Token streams are sequences of tokens; a token is a string: an          *)
(* identifier, the punctuation `,` or `=`, a literal, or an empty brace    *)
(* group.  Identifiers are atoms whose spelling is given by Spell.         *)
(***************************************************************************)
EXTENDS Naturals, Sequences, FiniteSets

VARIABLES
  direct,            \* `attrs: TokenStream` handed to try_tag
  item,              \* the annotated function: [vis, ident, attrs]
  pc,                \* position inside the expansion
  tags,              \* `tags` of try_tag
  more_tags,         \* `tags` of parse_fn_attrs
  passthrough_attrs, \* `passthrough_attrs` of parse_fn_attrs
  idx,               \* number of function attributes the loop has consumed
  classified,        \* per consumed attribute: the branch is_test_tag_attr chose
  err,               \* the error the expansion ended in, "none" otherwise
  unit,              \* the emitted token tree, None before emission
  mod_path,          \* modules enclosing the annotated function
  harness_name       \* characters of the test name the harness registers

vars == <<direct, item, pc, tags, more_tags, passthrough_attrs, idx,
          classified, err, unit, mod_path, harness_name>>

----------------------------------------------------------------------------
(* Bounds and input universes *)

MaxAttrs == 3

Comma == ","
EqSign == "="
Lit == "\"v\""
BraceGroup == "{}"

TagNames == {"a", "b", "ab"}
FnNames == {"f", "a"}
Visibilities == {"inherited", "pub"}
ModPaths == {<<>>, <<"m">>, <<"m", "b">>}
FilterNames == TagNames \cup FnNames \cup {"m", "test"}

None == [kind |-> "none"]

\* Argument lists written between the parentheses of a `tag(...)` attribute.
ArgLists ==
  { <<>>,
    <<"a">>,
    <<"a", Comma, "b">>,
    <<"ab", Comma>>,
    <<"a", EqSign, Lit>>,
    <<"a", "b">> }

Path(leading, segs) == [leading_colon |-> leading, segments |-> segs]

MetaPath(p) == [kind |-> "Path", path |-> p, tokens |-> <<>>]
MetaList(p, toks) == [kind |-> "List", path |-> p, tokens |-> toks]
MetaNameValue(p) == [kind |-> "NameValue", path |-> p, tokens |-> <<>>]

BareTag == Path(FALSE, <<"tag">>)
QualTag == Path(FALSE, <<"test_tag", "tag">>)
RootQualTag == Path(TRUE, <<"test_tag", "tag">>)
RootTag == Path(TRUE, <<"tag">>)
LongTag == Path(FALSE, <<"x", "test_tag", "tag">>)
BareTest == Path(FALSE, <<"test">>)
RootTest == Path(TRUE, <<"test">>)
TokioTest == Path(FALSE, <<"tokio", "test">>)
Ignore == Path(FALSE, <<"ignore">>)
SelfTest == Path(FALSE, <<"self", "test">>)

\* Attributes a function may carry besides the invoking one.
AttrUniverse ==
  { MetaList(BareTag, <<"a">>),
    MetaList(QualTag, <<"b", Comma, "ab">>),
    MetaList(RootQualTag, <<"ab", Comma>>),
    MetaList(BareTag, <<>>),
    MetaPath(BareTag),
    MetaList(BareTag, <<"a", EqSign, Lit>>),
    MetaNameValue(BareTag),
    MetaList(RootTag, <<"a">>),
    MetaList(LongTag, <<"a">>),
    MetaPath(BareTest),
    MetaList(BareTest, <<"a">>),
    MetaNameValue(BareTest),
    MetaPath(RootTest),
    MetaPath(TokioTest),
    MetaPath(Ignore) }

\* The attributes of the fixtures in tests/tests.rs, and an empty list.
NameAttrUniverse ==
  { MetaList(BareTag, <<"a">>),
    MetaList(QualTag, <<"b", Comma, "ab">>),
    MetaList(RootQualTag, <<"ab", Comma>>),
    MetaList(BareTag, <<>>),
    MetaPath(BareTest),
    MetaPath(Ignore) }

SeqUpTo(S, n) == UNION {[1..k -> S] : k \in 0..n}

Range(s) == {s[i] : i \in 1..Len(s)}

----------------------------------------------------------------------------
(* Results *)

Ok(v) == [ok |-> TRUE, val |-> v, err |-> "none"]
Err(e) == [ok |-> FALSE, val |-> <<>>, err |-> e]

----------------------------------------------------------------------------
(* Tag list parsing *)

IsIdentTok(tok) == tok \notin {Comma, EqSign, Lit, BraceGroup}

\* Punctuated::<Ident, Token![,]>::parse_terminated
RECURSIVE parse_terminated(_, _)
parse_terminated(toks, acc) ==
  IF toks = <<>> THEN Ok(acc)
  ELSE IF ~IsIdentTok(Head(toks)) THEN Err("Syntax")
  ELSE LET acc1 == Append(acc, Head(toks))
           rest == Tail(toks)
       IN  IF rest = <<>> THEN Ok(acc1)
           ELSE IF Head(rest) # Comma THEN Err("Syntax")
           ELSE parse_terminated(Tail(rest), acc1)

parse_tags_unchecked(toks) == parse_terminated(toks, <<>>)

parse_tags(toks) ==
  LET r == parse_terminated(toks, <<>>)
  IN  IF ~r.ok THEN r
      ELSE IF r.val # <<>> THEN Ok(r.val)
      ELSE Err("EmptyTagList")

----------------------------------------------------------------------------
(* Attribute classification *)

is_test_tag_attr_any_root(attr) ==
  IF attr.kind \notin {"Path", "List"} THEN FALSE
  ELSE LET path == attr.path
           segments == <<"test_tag", "tag">>
       IN  IF Len(path.segments) = 1 /\ path.segments[1] = "tag" THEN TRUE
           ELSE IF Len(path.segments) # Len(segments) THEN FALSE
           ELSE \A i \in 1..Len(segments) : path.segments[i] = segments[i]

is_test_tag_attr(attr) ==
  IF attr.kind \notin {"Path", "List"} THEN FALSE
  ELSE LET path == attr.path
           segments == <<"test_tag", "tag">>
       IN  IF ~path.leading_colon /\ Len(path.segments) = 1
              /\ path.segments[1] = "tag" THEN TRUE
           ELSE IF Len(path.segments) # Len(segments) THEN FALSE
           ELSE \A i \in 1..Len(segments) : path.segments[i] = segments[i]

\* The `match attr.meta` of parse_fn_attrs: the tokens handed to parse_tags.
meta_tokens(attr) ==
  CASE attr.kind = "Path" -> Ok(<<BraceGroup>>)
    [] attr.kind = "List" -> Ok(attr.tokens)
    [] attr.kind = "NameValue" -> Err("UnsupportedAttributeArgumentShape")

push_front(v, attr) == <<attr>> \o v

push(v, attr) == Append(v, attr)

extend_front(ts, more) == more \o ts

extend(ts, more) == ts \o more

----------------------------------------------------------------------------
(* Marker rewrite *)

rewrite_path_unless_name_value(attr) ==
  IF attr.kind # "NameValue" /\ ~attr.path.leading_colon
     /\ Len(attr.path.segments) = 1 /\ attr.path.segments[1] = "test"
  THEN [attr EXCEPT !.path.segments = <<"self">> \o @]
  ELSE attr

rewrite_path(attr) ==
  IF ~attr.path.leading_colon /\ Len(attr.path.segments) = 1
     /\ attr.path.segments[1] = "test"
  THEN [attr EXCEPT !.path.segments = <<"self">> \o @]
  ELSE attr

rewrite_test_attrs(attrs) == [i \in 1..Len(attrs) |-> rewrite_path(attrs[i])]

----------------------------------------------------------------------------
(* Emission *)

Fn(attrs, ident) == [kind |-> "fn", vis |-> "pub", ident |-> ident, attrs |-> attrs]
Mod(name, body) == [kind |-> "mod", name |-> name, body |-> body]

\* The `for tag in tags.into_iter().rev()` loop; import <<>> stands for None.
RECURSIVE nest_forward(_, _, _)
nest_forward(ts, result, import) ==
  IF ts = <<>> THEN [result |-> result, import |-> import]
  ELSE LET tag == ts[Len(ts)]
       IN  nest_forward(SubSeq(ts, 1, Len(ts) - 1), Mod(tag, result),
                        IF import # <<>> THEN import \o <<tag>> ELSE <<tag>>)

RECURSIVE nest(_, _, _)
nest(ts, result, import) ==
  IF ts = <<>> THEN [result |-> result, import |-> import]
  ELSE LET tag == ts[Len(ts)]
       IN  nest(SubSeq(ts, 1, Len(ts) - 1), Mod(tag, result),
                IF import # <<>> THEN <<tag>> \o import ELSE <<tag>>)

no_test_module(test_name, result) == result

\* `pub mod #test_name { use super::*; #result }`
test_module(test_name, result) == Mod(test_name, result)

\* try_tag from the rename of the function to the final quote!.
emit(f, all_tags, attrs) ==
  LET test_name == f.ident
      n == nest(all_tags, Fn(attrs, "test"), <<>>)
  IN  [kind |-> "unit",
       alias |-> [vis |-> f.vis, name |-> test_name,
                  path |-> <<test_name>> \o n.import \o <<"test">>],
       module |-> test_module(test_name, n.result)]

----------------------------------------------------------------------------
(* Test harness: the name of the test is the path of the function through  *)
(* the modules it is nested in, joined by `::`.                            *)

RECURSIVE FnPath(_)
FnPath(node) ==
  IF node.kind = "mod" THEN <<node.name>> \o FnPath(node.body)
  ELSE <<node.ident>>

RECURSIVE InnerFn(_)
InnerFn(node) == IF node.kind = "mod" THEN InnerFn(node.body) ELSE node

Spell(id) ==
  CASE id = "a" -> <<"a">>
    [] id = "b" -> <<"b">>
    [] id = "ab" -> <<"a", "b">>
    [] id = "f" -> <<"f">>
    [] id = "m" -> <<"m">>
    [] id = "test" -> <<"t", "e", "s", "t">>

RECURSIVE JoinPath(_)
JoinPath(segs) ==
  IF segs = <<>> THEN <<>>
  ELSE IF Len(segs) = 1 THEN Spell(segs[1])
  ELSE Spell(segs[1]) \o <<":", ":">> \o JoinPath(Tail(segs))

Contains(s, p) ==
  \E i \in 1..(Len(s) + 1) :
    i + Len(p) - 1 <= Len(s) /\ SubSeq(s, i, i + Len(p) - 1) = p

\* Filtering the registered name by the substring `:t:`.
Selected(t) == Contains(harness_name, <<":">> \o Spell(t) \o <<":">>)

----------------------------------------------------------------------------
(* State machine *)

InitWith(Decls, Attrs) ==
  /\ direct \in ArgLists
  /\ item \in {[vis |-> d.vis, ident |-> d.ident, attrs |-> a] :
                d \in Decls, a \in SeqUpTo(Attrs, MaxAttrs)}
  /\ pc = "start"
  /\ tags = <<>>
  /\ more_tags = <<>>
  /\ passthrough_attrs = <<>>
  /\ idx = 0
  /\ classified = <<>>
  /\ err = "none"
  /\ unit = None
  /\ mod_path = <<>>
  /\ harness_name = <<>>

\* One function declaration, every attribute of the universe.
Init == InitWith({[vis |-> "inherited", ident |-> "f"]}, AttrUniverse)

\* Every function declaration, the attributes that decide names.
InitNames == InitWith([vis : Visibilities, ident : FnNames], NameAttrUniverse)

\* try_tag, line 109: `let mut tags = parse_tags(attrs)?;`
ParseDirect ==
  /\ pc = "start"
  /\ LET r == parse_tags(direct)
     IN  IF r.ok
         THEN /\ tags' = r.val
              /\ pc' = "attrs"
              /\ err' = err
         ELSE /\ tags' = tags
              /\ pc' = "error"
              /\ err' = r.err
  /\ UNCHANGED <<direct, item, more_tags, passthrough_attrs, idx, classified,
                 unit, mod_path, harness_name>>

\* One iteration of the `for attr in attrs` loop of parse_fn_attrs.
ParseFnAttr ==
  /\ pc = "attrs"
  /\ idx < Len(item.attrs)
  /\ LET attr == item.attrs[idx + 1]
         isTag == is_test_tag_attr(attr)
         toks == meta_tokens(attr)
         r == IF toks.ok THEN parse_tags(toks.val) ELSE toks
     IN  /\ classified' = Append(classified, isTag)
         /\ idx' = idx + 1
         /\ IF isTag
            THEN IF r.ok
                 THEN /\ more_tags' = extend(more_tags, r.val)
                      /\ UNCHANGED <<pc, err, passthrough_attrs>>
                 ELSE /\ pc' = "error"
                      /\ err' = r.err
                      /\ UNCHANGED <<more_tags, passthrough_attrs>>
            ELSE /\ passthrough_attrs' = push(passthrough_attrs, attr)
                 /\ UNCHANGED <<pc, err, more_tags>>
  /\ UNCHANGED <<direct, item, tags, unit, mod_path, harness_name>>

\* try_tag, lines 121-177, once parse_fn_attrs has returned Ok.
Emit ==
  /\ pc = "attrs"
  /\ idx = Len(item.attrs)
  /\ tags' = extend(tags, more_tags)
  /\ unit' = emit(item, tags', rewrite_test_attrs(passthrough_attrs))
  /\ pc' = "done"
  /\ UNCHANGED <<direct, item, more_tags, passthrough_attrs, idx, classified,
                 err, mod_path, harness_name>>

\* The harness registers the emitted test under its module path.
Register ==
  /\ pc = "done"
  /\ \E mp \in ModPaths :
       /\ mod_path' = mp
       /\ harness_name' = JoinPath(mp \o FnPath(unit.module))
  /\ pc' = "registered"
  /\ UNCHANGED <<direct, item, tags, more_tags, passthrough_attrs, idx,
                 classified, err, unit>>

Next == ParseDirect \/ ParseFnAttr \/ Emit \/ Register

Spec == Init /\ [][Next]_vars

SpecNames == InitNames /\ [][Next]_vars

----------------------------------------------------------------------------
(* Vocabulary of the properties, stated without the parser *)

Terminal == pc \in {"error", "done", "registered"}
Succeeded == pc \in {"done", "registered"}

\* The identifiers written in an argument list, left to right.
Idents(toks) == SelectSeq(toks, IsIdentTok)

\* A non-empty comma-separated identifier list, trailing comma allowed.
WellFormedList(toks) ==
  /\ toks # <<>>
  /\ \A k \in 1..Len(toks) :
       IF k % 2 = 1 THEN IsIdentTok(toks[k]) ELSE toks[k] = Comma

\* An argument list of the shape `k = "v"`.
KeyValueArgs(toks) ==
  Len(toks) >= 2 /\ IsIdentTok(toks[1]) /\ toks[2] = EqSign

NamesTag(path) == path \in {BareTag, QualTag, RootQualTag}

IsTagDecl(attr) == NamesTag(attr.path) /\ attr.kind \in {"Path", "List"}

NotTagDecl(attr) == ~IsTagDecl(attr)

EmptyTagAttr(attr) ==
  NamesTag(attr.path) /\ attr.kind = "List" /\ attr.tokens = <<>>

SuppliesTags(attr) ==
  IsTagDecl(attr) => attr.kind = "List" /\ WellFormedList(attr.tokens)

RECURSIVE DeclaredTags(_)
DeclaredTags(attrs) ==
  IF attrs = <<>> THEN <<>>
  ELSE (IF IsTagDecl(Head(attrs)) THEN Idents(Head(attrs).tokens) ELSE <<>>)
       \o DeclaredTags(Tail(attrs))

ExpectedTags == Idents(direct) \o DeclaredTags(item.attrs)

ExpectedPassthrough == SelectSeq(item.attrs, NotTagDecl)

EmittedAttrs == InnerFn(unit.module).attrs

----------------------------------------------------------------------------
\* C1: on success exactly one alias is emitted, named after the function,
\* with the function's visibility, bound to f::t1::...::tn::test where
\* t1..tn are the tags of the direct list followed by those of the further
\* tag attributes; that path leads through the emitted modules to the
\* function, which is renamed to `test`.
Thm_C1 ==
  Succeeded =>
    /\ unit.alias = [vis |-> item.vis, name |-> item.ident,
                     path |-> <<item.ident>> \o ExpectedTags \o <<"test">>]
    /\ FnPath(unit.module) = unit.alias.path
    /\ InnerFn(unit.module).ident = "test"

Witness_C1 ==
  /\ pc = "done"
  /\ Len(Idents(direct)) >= 2
  /\ Len(DeclaredTags(item.attrs)) >= 2
  /\ \E i \in 1..Len(item.attrs) : IsTagDecl(item.attrs[i])

InnerSegments ==
  LET p == mod_path \o <<item.ident>> IN {p[i] : i \in 2..Len(p)}

\* C2 (as stated): filtering the registered names by `:t:` selects exactly
\* the functions whose merged tag sequence contains t.
Orig_C2 ==
  pc = "registered" =>
    \A t \in FilterNames : Selected(t) <=> t \in Range(ExpectedTags)

\* C2 (amended): `:t:` selects a function exactly when t is one of its
\* merged tags, or t is the function's own name or the name of an enclosing
\* module and that segment is not the first one of the registered name.
Thm_C2 ==
  pc = "registered" =>
    \A t \in FilterNames :
      Selected(t) <=> (t \in Range(ExpectedTags) \/ t \in InnerSegments)

Witness_C2 ==
  /\ pc = "registered"
  /\ mod_path # <<>>
  /\ item.ident \notin Range(ExpectedTags)
  /\ Selected(item.ident)
  /\ Len(ExpectedTags) >= 2
  /\ \A i \in 1..Len(ExpectedTags) : Selected(ExpectedTags[i])

\* C3: the merged tag sequence is the direct tags followed by the tags of
\* each further tag attribute in declaration order, nothing reordered and
\* nothing deduplicated; tag(a) plus tag(a) succeeds with f::a::a::test.
Thm_C3 ==
  /\ Succeeded =>
       /\ tags = ExpectedTags
       /\ Len(tags) = Len(Idents(direct)) + Len(DeclaredTags(item.attrs))
  /\ (direct = <<"a">> /\ item.attrs = <<MetaList(BareTag, <<"a">>)>>) =>
       /\ pc # "error"
       /\ Succeeded => unit.alias.path = <<item.ident, "a", "a", "test">>
  /\ (/\ direct = <<"a", Comma, "b">>
      /\ item.attrs = <<MetaList(RootQualTag, <<"ab", Comma>>)>>
      /\ Succeeded) => tags = <<"a", "b", "ab">>

Witness_C3 ==
  /\ pc = "done"
  /\ direct = <<"a", Comma, "b">>
  /\ tags = <<"a", "b", "a", "b", "ab">>

HasEmptyList ==
  \/ direct = <<>>
  \/ \E i \in 1..Len(item.attrs) : EmptyTagAttr(item.attrs[i])

FirstFailureIsEmptyList ==
  \/ direct = <<>>
  \/ /\ WellFormedList(direct)
     /\ \E i \in 1..Len(item.attrs) :
          /\ EmptyTagAttr(item.attrs[i])
          /\ \A j \in 1..(i - 1) : SuppliesTags(item.attrs[j])

\* C4 (as stated): whenever the direct list or any further tag(...) list is
\* empty, the expansion ends in the EmptyTagList error and emits nothing.
Orig_C4 ==
  (Terminal /\ HasEmptyList) =>
    pc = "error" /\ err = "EmptyTagList" /\ unit = None

\* C4 (amended): whenever the direct list or any further tag(...) list is
\* empty, the expansion fails and emits nothing; the error is EmptyTagList
\* when the empty list is the first parse point that fails, that is, the
\* direct list is empty, or the direct list and every tag attribute before
\* the empty one are non-empty comma-separated identifier lists.
Thm_C4 ==
  (Terminal /\ HasEmptyList) =>
    /\ pc = "error"
    /\ unit = None
    /\ FirstFailureIsEmptyList => err = "EmptyTagList"

Witness_C4 ==
  /\ pc = "error"
  /\ err = "EmptyTagList"
  /\ WellFormedList(direct)
  /\ Len(item.attrs) >= 2
  /\ item.attrs[1] = MetaList(BareTag, <<"a">>)
  /\ EmptyTagAttr(item.attrs[2])

KeyValueTagAttr(attr) ==
  /\ NamesTag(attr.path)
  /\ \/ attr.kind = "NameValue"
     \/ attr.kind = "List" /\ KeyValueArgs(attr.tokens)

\* The first parse point that does not supply tags is a key-value one.
FirstFailureIsKeyValue ==
  \/ KeyValueArgs(direct)
  \/ /\ WellFormedList(direct)
     /\ \E i \in 1..Len(item.attrs) :
          /\ KeyValueTagAttr(item.attrs[i])
          /\ \A j \in 1..(i - 1) : SuppliesTags(item.attrs[j])

\* C5: a tag attribute with a key-value argument, as the invoking attribute
\* or as a further attribute in either form, ends the expansion in the
\* UnsupportedAttributeArgumentShape error; it is never passed through and
\* no unit is emitted.
Orig_C5 ==
  (Terminal /\ FirstFailureIsKeyValue) =>
    pc = "error" /\ err = "UnsupportedAttributeArgumentShape" /\ unit = None

\* C6: on success the attributes of the innermost function are the
\* function's attributes that are not tag declarations, each once and in
\* their original order, unaltered but for the path rewrite of `test`.
Thm_C6 ==
  Succeeded =>
    /\ Len(EmittedAttrs) = Len(ExpectedPassthrough)
    /\ \A i \in 1..Len(EmittedAttrs) :
         /\ \/ EmittedAttrs[i] = ExpectedPassthrough[i]
            \/ /\ ExpectedPassthrough[i].path = BareTest
               /\ EmittedAttrs[i] = [ExpectedPassthrough[i] EXCEPT !.path = SelfTest]
         /\ ~IsTagDecl(EmittedAttrs[i])

Witness_C6 ==
  /\ pc = "done"
  /\ Len(item.attrs) = 3
  /\ IsTagDecl(item.attrs[2])
  /\ Len(EmittedAttrs) = 2
  /\ EmittedAttrs[1].path = Ignore
  /\ EmittedAttrs[2].path = SelfTest

\* C7: a pass-through attribute's path becomes self::test exactly when it
\* is the single unqualified identifier `test`, whatever the attribute's
\* argument shape; every other path is left alone, and no emitted attribute
\* has the bare path `test`.
Thm_C7 ==
  Succeeded =>
    /\ Len(EmittedAttrs) = Len(passthrough_attrs)
    /\ \A i \in 1..Len(EmittedAttrs) :
         /\ EmittedAttrs[i].path = SelfTest <=> passthrough_attrs[i].path = BareTest
         /\ passthrough_attrs[i].path # BareTest =>
              EmittedAttrs[i].path = passthrough_attrs[i].path
         /\ EmittedAttrs[i].path # BareTest
         /\ EmittedAttrs[i].kind = passthrough_attrs[i].kind

Witness_C7 ==
  /\ pc = "done"
  /\ \E i, j, k \in 1..Len(passthrough_attrs) :
       /\ passthrough_attrs[i] = MetaNameValue(BareTest)
       /\ EmittedAttrs[i].path = SelfTest
       /\ passthrough_attrs[j] = MetaList(BareTest, <<"a">>)
       /\ EmittedAttrs[j].path = SelfTest
       /\ passthrough_attrs[k].path = RootTest
       /\ EmittedAttrs[k].path = RootTest

\* C8: an attribute is taken for a tag declaration exactly when its path is
\* `tag`, `test_tag::tag` or `::test_tag::tag` and it has no arguments or a
\* parenthesized list; everything else is pass-through.
Thm_C8 ==
  /\ Len(classified) = idx
  /\ \A i \in 1..Len(classified) : classified[i] <=> IsTagDecl(item.attrs[i])

Witness_C8 ==
  /\ Len(classified) = 3
  /\ item.attrs[1] = MetaList(RootTag, <<"a">>) /\ ~classified[1]
  /\ item.attrs[2] = MetaList(RootQualTag, <<"ab", Comma>>) /\ classified[2]
  /\ item.attrs[3] = MetaNameValue(BareTag) /\ ~classified[3]

\* C9: a further tag attribute without an argument list ends the expansion
\* in the same EmptyTagList error as an explicitly empty list.
Orig_C9 ==
  (/\ Terminal
   /\ WellFormedList(direct)
   /\ \E i \in 1..Len(item.attrs) :
        /\ NamesTag(item.attrs[i].path)
        /\ item.attrs[i].kind = "Path"
        /\ \A j \in 1..(i - 1) : SuppliesTags(item.attrs[j]))
  => pc = "error" /\ err = "EmptyTagList"

\* C10 (as stated): tag collection either succeeds with a non-empty tag
\* sequence or ends in EmptyTagList or UnsupportedAttributeArgumentShape,
\* and an error leaves no emitted unit.
Orig_C10 ==
  Terminal =>
    \/ Succeeded /\ tags # <<>> /\ unit # None
    \/ /\ pc = "error"
       /\ err \in {"EmptyTagList", "UnsupportedAttributeArgumentShape"}
       /\ unit = None

\* C10 (amended): tag collection either succeeds with a non-empty tag
\* sequence or ends in one of three errors, the third being the syntax
\* error of the tag-list parser; an error is terminal: the tags collected
\* are those of the attributes before the failing one, nothing is emitted
\* and nothing is registered.
Thm_C10 ==
  Terminal =>
    \/ Succeeded /\ tags # <<>> /\ unit # None /\ err = "none"
    \/ /\ pc = "error"
       /\ err \in {"EmptyTagList", "UnsupportedAttributeArgumentShape", "Syntax"}
       /\ unit = None
       /\ harness_name = <<>>
       /\ idx <= Len(item.attrs)
       /\ more_tags = DeclaredTags(SubSeq(item.attrs, 1, idx - 1))

Witness_C10 ==
  /\ pc = "error"
  /\ err = "Syntax"
  /\ idx = 2
  /\ Len(item.attrs) = 3
  /\ more_tags # <<>>
  /\ DeclaredTags(<<item.attrs[3]>>) # <<>>

====
